---- MODULE Spec2Model ----
(***************************************************************************)
(* Model of lib/IR/QuantumDialect.cpp: the uniqued parametric types of the *)
(* Quantum dialect (QuregType, COpType), their printer and parser, the     *)
(* register accessor grammar, and the custom assembly format of the        *)
(* operations that implement the register access interface.                *)
(*                                                                         *)
(* Text is modelled at the level of the host framework's tokens: a token   *)
(* is a pair <<kind, value>>, the value being 0 for every token but an     *)
(* integer literal, an SSA value reference and a float literal.            *)
(***************************************************************************)
EXTENDS Integers, Sequences, FiniteSets, TLC

VARIABLES
    storage,    \* the type uniquer's storage instances (QuregTypeStorage, COpTypeStorage)
    last,       \* outcome of the most recent type request (get or parse)
    atext,      \* accessor grammar: the tokens under the cursor
    ares,       \* accessor grammar: result of parseOperandOrIntAttrList
    aprinted,   \* accessor grammar: what the printer's accessor loop emitted
    inp,        \* operation syntax: the operation text, by its parts
    text,       \* operation syntax: the operation text, as tokens
    op,         \* operation syntax: result of parseRegAccessOps on text
    printed,    \* operation syntax: result of print<OpClass> on op
    op2         \* operation syntax: result of parseRegAccessOps on printed

vars == <<storage, last, atext, ares, aprinted, inp, text, op, printed, op2>>
typeVars == <<storage, last>>
accVars == <<atext, ares, aprinted>>
opVars == <<inp, text, op, printed, op2>>

(***************************************************************************)
(* Tokens and optional values                                              *)
(***************************************************************************)
Tok(k) == <<k, 0>>
IntTok(n) == <<"int", n>>
ValTok(v) == <<"%", v>>
\* an attribute alias that stands for the integer attribute n; written behind
\* a value reference it is read as that value's result number, which it is not
HashTok(n) == <<"#", n>>
FloatTok(f) == <<"float", f>>

None == <<>>
Some(n) == <<n>>

\* the token under the cursor; past the end of the text it is the end-of-file token
At(toks, pos) == IF pos \in 1..Len(toks) THEN toks[pos] ELSE Tok("eof")

Idle == [st |-> "idle"]

(***************************************************************************)
(* Type storage and uniquing                                               *)
(***************************************************************************)
\* integer parameters requested of the types
ParamValues == {-5, -1, 0, 1, 2, 3}
OptParams == {None} \cup {Some(n) : n \in ParamValues}
\* the types a COp may be asked to wrap; "null" is Type(nullptr)
BaseKinds == {"null", "qubit", "u1", "u2", "circ"}
SimpleKinds == {"qubit", "u1", "u2", "circ"}

\* a storage instance is [kind, n, base, key]: n is QuregTypeStorage::size or
\* COpTypeStorage::nctrl, key the KeyTy value it was constructed from
NoKey == [k |-> 0, base |-> "null"]
SimpleType(kind) == [kind |-> kind, n |-> None, base |-> "null", key |-> NoKey]
NullType == SimpleType("null")

\* key < 0 ? llvm::None : llvm::Optional<int>(key)
KeyToOptional(k) == IF k < 0 THEN None ELSE Some(k)

\* size ? *size : -1
OptionalToKey(o) == IF o = None THEN -1 ELSE o[1]

QuregKey(size) == [k |-> OptionalToKey(size), base |-> "null"]
COpKey(nctrl, base) == [k |-> OptionalToKey(nctrl), base |-> base]

\* assert(!size || *size > 1)
QuregCtorOk(size) == size = None \/ size[1] > 1

\* assert(!nctrl || *nctrl > 0); if (baseType) assert(isa<U1Type> || isa<U2Type> || isa<CircType>)
COpCtorOk(nctrl, base) ==
    /\ nctrl = None \/ nctrl[1] > 0
    /\ base # "null" => base \in {"u1", "u2", "circ"}

CtorOk(kind, key) ==
    IF kind = "qureg" THEN QuregCtorOk(KeyToOptional(key.k))
    ELSE COpCtorOk(KeyToOptional(key.k), key.base)

\* QuregTypeStorage::operator== / COpTypeStorage::operator==
StorageEq(s, kind, key) ==
    /\ s.kind = kind
    /\ s.n = KeyToOptional(key.k)
    /\ kind = "cop" => key.base = s.base

\* QuregTypeStorage::construct / COpTypeStorage::construct
Construct(kind, key) ==
    [kind |-> kind, n |-> KeyToOptional(key.k), base |-> key.base, key |-> key]

\* The storage instances a lookup of key may return. The uniquer hashes the key
\* and compares, with operator==, the instances it probes: an instance made
\* from the same key is always found; one made from another key that operator==
\* accepts is found only when the two keys' hashes meet.
Exact(st, kind, key) == {s \in st : s.kind = kind /\ s.key = key}
Probed(st, kind, key) == {s \in st : StorageEq(s, kind, key)}

\* Base::get(ctx, key) with `hit` the instance the probe found (NullType: none).
\* Returns [ok, t, st]; a failed assertion of the constructor ends in ok = FALSE.
UniquerGet(st, kind, key, hit) ==
    IF Exact(st, kind, key) # {}
    THEN [ok |-> TRUE, t |-> CHOOSE s \in Exact(st, kind, key) : TRUE, st |-> st]
    ELSE IF hit \in Probed(st, kind, key)
    THEN [ok |-> TRUE, t |-> hit, st |-> st]
    ELSE IF CtorOk(kind, key)
    THEN [ok |-> TRUE, t |-> Construct(kind, key), st |-> st \cup {Construct(kind, key)}]
    ELSE [ok |-> FALSE, t |-> NullType, st |-> st]

\* QuregType::get(ctx, size)
QuregTypeGet(st, size, hit) == UniquerGet(st, "qureg", QuregKey(size), hit)

\* COpType::get(ctx, nctrl, baseType)
COpTypeGet(st, nctrl, base, hit) == UniquerGet(st, "cop", COpKey(nctrl, base), hit)

\* what a probe may find
Hits(st) == st \cup {NullType}

(***************************************************************************)
(* Dialect types printing and parsing                                      *)
(***************************************************************************)
\* printer << Type: a dialect type prints behind the dialect prefix, the null
\* type as the framework's <<NULL TYPE>>
PrintAnyType(base) ==
    IF base = "null" THEN <<Tok("<<NULL TYPE>>")>> ELSE <<Tok("!qs"), Tok(base)>>

\* QuantumDialect::printType
PrintType(t) ==
    CASE t.kind = "qureg" ->
            <<Tok("qureg"), Tok("<")>>
            \o (IF t.n # None THEN <<IntTok(t.n[1])>> ELSE <<>>)
            \o <<Tok(">")>>
      [] t.kind = "cop" ->
            <<Tok("cop"), Tok("<")>>
            \o (IF t.n # None THEN <<IntTok(t.n[1]), Tok(",")>> ELSE <<>>)
            \o PrintAnyType(t.base)
            \o <<Tok(">")>>
      [] OTHER -> <<Tok(t.kind)>>

TypeFail(st, pos) == [ok |-> FALSE, t |-> NullType, pos |-> pos, st |-> st]

\* parser.parseOptionalInteger<int>: [has, val, pos]
ParseOptionalInteger(toks, pos) ==
    IF At(toks, pos)[1] = "int"
    THEN [has |-> TRUE, val |-> At(toks, pos)[2], pos |-> pos + 1]
    ELSE [has |-> FALSE, val |-> 0, pos |-> pos]

\* parser.parseType(baseType) inside cop<...>: the types the texts here hold
\* are the dialect's parameterless ones, which the builder returns as they are
ParseAnyType(toks, pos) ==
    IF At(toks, pos) = Tok("!qs") /\ At(toks, pos + 1)[1] \in SimpleKinds
    THEN [ok |-> TRUE, base |-> At(toks, pos + 1)[1], pos |-> pos + 2]
    ELSE [ok |-> FALSE, base |-> "null", pos |-> pos]

\* QuantumDialect::parseQuregType
ParseQuregType(st, toks, pos, hit) ==
    IF At(toks, pos) # Tok("<") THEN TypeFail(st, pos)
    ELSE LET res == ParseOptionalInteger(toks, pos + 1)
             optionalSize == IF res.has THEN Some(res.val) ELSE None
         IN  IF At(toks, res.pos) # Tok(">") THEN TypeFail(st, res.pos)
             ELSE LET g == QuregTypeGet(st, optionalSize, hit)
                  IN  [ok |-> g.ok, t |-> g.t, pos |-> res.pos + 1, st |-> g.st]

\* QuantumDialect::parseCOpType
ParseCOpType(st, toks, pos, hit) ==
    IF At(toks, pos) # Tok("<") THEN TypeFail(st, pos)
    ELSE LET res == ParseOptionalInteger(toks, pos + 1)
             optionalNctrl == IF res.has THEN Some(res.val) ELSE None
         IN  IF res.has /\ At(toks, res.pos) # Tok(",") THEN TypeFail(st, res.pos)
             ELSE LET b == ParseAnyType(toks, IF res.has THEN res.pos + 1 ELSE res.pos)
                  IN  IF ~b.ok THEN TypeFail(st, b.pos)
                      ELSE IF At(toks, b.pos) # Tok(">") THEN TypeFail(st, b.pos)
                      ELSE IF b.base # "null" /\ b.base \notin {"u1", "u2", "circ"}
                           THEN TypeFail(st, b.pos + 1)
                      ELSE LET g == COpTypeGet(st, optionalNctrl, b.base, hit)
                           IN  [ok |-> g.ok, t |-> g.t, pos |-> b.pos + 1, st |-> g.st]

\* QuantumDialect::parseType
ParseType(st, toks, pos, hit) ==
    LET keyword == At(toks, pos)[1]
    IN  CASE keyword \in SimpleKinds ->
                [ok |-> TRUE, t |-> SimpleType(keyword), pos |-> pos + 1, st |-> st]
          [] keyword = "qureg" -> ParseQuregType(st, toks, pos + 1, hit)
          [] keyword = "cop" -> ParseCOpType(st, toks, pos + 1, hit)
          [] OTHER -> TypeFail(st, pos)

(***************************************************************************)
(* The type registry as a state machine                                    *)
(***************************************************************************)
\* the most instances the uniquer is let to hold
MaxStorage == 2

\* `last` is the outcome of the most recent request: via "get" with the
\* parameters asked for, via "parse" with the text parsed and, when the text is
\* the printer's, the type it was printed from (src)
NoRequest ==
    [via |-> "none", ok |-> FALSE, kind |-> "none", n |-> None, base |-> "null",
     text |-> <<>>, src |-> NullType, t |-> NullType]

\* the texts handed to the type parser
TypeTexts ==
    {<<Tok(k)>> : k \in SimpleKinds \cup {"index"}}
    \cup {<<Tok("qureg"), Tok("<"), Tok(">")>>, <<Tok("qureg"), Tok("<")>>,
          <<Tok("cop"), Tok("<"), Tok(">")>>}
    \cup {<<Tok("qureg"), Tok("<"), IntTok(n), Tok(">")>> : n \in ParamValues}
    \cup {<<Tok("cop"), Tok("<"), IntTok(n), Tok(">")>> : n \in ParamValues}
    \cup {<<Tok("cop"), Tok("<"), IntTok(n), Tok(","), Tok("!qs"), Tok(b), Tok(">")>> :
            n \in ParamValues, b \in SimpleKinds}
    \cup {<<Tok("cop"), Tok("<"), Tok("!qs"), Tok(b), Tok(">")>> : b \in SimpleKinds}

Room(st) == Cardinality(st) < MaxStorage

KnownTypes(st) == st \cup {SimpleType(k) : k \in SimpleKinds}

\* a caller asks for a Qureg type
GetQureg ==
    \E size \in OptParams :
    \E hit \in Probed(storage, "qureg", QuregKey(size)) \cup {NullType} :
        LET g == QuregTypeGet(storage, size, hit)
        IN  /\ Room(storage)
            /\ storage' = g.st
            /\ last' = [NoRequest EXCEPT !.via = "get", !.ok = g.ok, !.kind = "qureg",
                                         !.n = size, !.t = g.t]
            /\ UNCHANGED <<accVars, opVars>>

\* a caller asks for a COp type
GetCOp ==
    \E nctrl \in OptParams, base \in BaseKinds :
    \E hit \in Probed(storage, "cop", COpKey(nctrl, base)) \cup {NullType} :
        LET g == COpTypeGet(storage, nctrl, base, hit)
        IN  /\ Room(storage)
            /\ storage' = g.st
            /\ last' = [NoRequest EXCEPT !.via = "get", !.ok = g.ok, !.kind = "cop",
                                         !.n = nctrl, !.base = base, !.t = g.t]
            /\ UNCHANGED <<accVars, opVars>>

ParsedType(src, txt, r) ==
    /\ storage' = r.st
    /\ last' = [NoRequest EXCEPT !.via = "parse", !.ok = r.ok /\ r.pos = Len(txt) + 1,
                                 !.text = txt, !.src = src, !.t = r.t]
    /\ UNCHANGED <<accVars, opVars>>

\* the parser is handed a text
ParseTypeStep ==
    \E txt \in TypeTexts, hit \in Hits(storage) :
        /\ Room(storage)
        /\ ParsedType(NullType, txt, ParseType(storage, txt, 1, hit))

\* the parser is handed what the printer wrote for a type
ReparseTypeStep ==
    \E t \in KnownTypes(storage), hit \in Hits(storage) :
        ParsedType(t, PrintType(t), ParseType(storage, PrintType(t), 1, hit))

(***************************************************************************)
(* Register accessor lists: parseOperandOrIntAttrList and the printer's    *)
(* accessor loop                                                           *)
(***************************************************************************)
\* ShapedType::kDynamicSize, the dynVal the parser stores for an SSA accessor
kDynamicSize == -1
\* the value the printer compares an accessor attribute with
PrintedDynamic == -1
\* "there are atmost 3 range accessors to parse: start, size, step"
MaxAccessors == 3

AccFail(d, pos, failedAt, late) ==
    [ok |-> FALSE, diag |-> d, acc |-> <<>>, ssa |-> <<>>, pos |-> pos,
     failedAt |-> IF failedAt = 0 THEN pos ELSE failedAt, late |-> late]

\* parser.parseOptionalOperand at pos: no value reference there (has = FALSE),
\* a value reference (ok), or a value reference with a result number that is
\* no number, which is consumed up to the number and reported as an error
ParseOptionalOperand(toks, pos) ==
    IF At(toks, pos)[1] # "%"
    THEN [has |-> FALSE, ok |-> TRUE, v |-> 0, pos |-> pos]
    ELSE IF At(toks, pos + 1)[1] = "#"
    THEN [has |-> TRUE, ok |-> FALSE, v |-> At(toks, pos)[2], pos |-> pos + 1]
    ELSE [has |-> TRUE, ok |-> TRUE, v |-> At(toks, pos)[2], pos |-> pos + 1]

\* The for loop of parseOperandOrIntAttrList, entered at iteration i with the
\* cursor at pos. A value reference that failed to parse is not returned as a
\* failure: the component is then parsed as an attribute (failedAt: the cursor
\* behind the first step that failed, 0 if none did; late: a step ran behind
\* a failed one)
RECURSIVE AccessorLoop(_, _, _, _, _, _, _)

\* behind a component: a comma and the next iteration, or the closing bracket
AccessorNext(toks, next, i, vals, ops, dynVal, failedAt) ==
    IF At(toks, next) = Tok(",")
    THEN AccessorLoop(toks, next + 1, i + 1, vals, ops, dynVal, failedAt)
    ELSE IF At(toks, next) # Tok("]")
    THEN AccFail("expected ']'", next, failedAt, failedAt # 0)
    ELSE [ok |-> TRUE, diag |-> "", acc |-> vals, ssa |-> ops, pos |-> next + 1,
          failedAt |-> failedAt, late |-> failedAt # 0]

\* one component, res being what parseOptionalOperand returned for it
AccessorComponent(toks, i, attrVals, ssa, dynVal, failedAt, res) ==
    IF res.has /\ res.ok
    THEN AccessorNext(toks, res.pos, i, Append(attrVals, dynVal), Append(ssa, res.v),
                      dynVal, failedAt)
    ELSE IF At(toks, res.pos)[1] \notin {"int", "#"}
    THEN AccFail("expected SSA value or integer", res.pos, failedAt, failedAt # 0)
    ELSE AccessorNext(toks, res.pos + 1, i, Append(attrVals, At(toks, res.pos)[2]), ssa,
                      dynVal, failedAt)

\* the first failure so far, res being the operand parse just made
FirstFailure(failedAt, res) ==
    IF res.has /\ ~res.ok /\ failedAt = 0 THEN res.pos ELSE failedAt

AccessorStep(toks, i, attrVals, ssa, dynVal, failedAt, res) ==
    AccessorComponent(toks, i, attrVals, ssa, dynVal, FirstFailure(failedAt, res), res)

AccessorLoop(toks, pos, i, attrVals, ssa, dynVal, failedAt) ==
    IF i >= MaxAccessors
    THEN [ok |-> TRUE, diag |-> "", acc |-> attrVals, ssa |-> ssa, pos |-> pos,
          failedAt |-> failedAt, late |-> failedAt # 0]
    ELSE AccessorStep(toks, i, attrVals, ssa, dynVal, failedAt,
                      ParseOptionalOperand(toks, pos))

\* parseOperandOrIntAttrList
ParseOperandOrIntAttrList(toks, pos, dynVal) ==
    IF At(toks, pos) # Tok("[")
    THEN [ok |-> TRUE, diag |-> "", acc |-> <<>>, ssa |-> <<>>, pos |-> pos,
          failedAt |-> 0, late |-> FALSE]
    ELSE AccessorLoop(toks, pos + 1, 0, <<>>, <<>>, dynVal, 0)

\* op.getOperand(idx), idx counted from 0; a read past the operands is
\* undefined and yields whatever `junk` is
GetOperand(operands, idx, junk) ==
    IF idx + 1 \in 1..Len(operands) THEN operands[idx + 1] ELSE junk

\* the printer's loop over one accessor array: [toks, totIdx]
RECURSIVE PrintAccessorLoop(_, _, _, _, _, _)
PrintAccessorLoop(array, j, operands, totIdx, junk, out) ==
    IF j > Len(array) THEN [toks |-> out, totIdx |-> totIdx]
    ELSE LET sep == IF j = 1 THEN <<>> ELSE <<Tok(",")>>
         IN  IF array[j] = PrintedDynamic
             THEN PrintAccessorLoop(array, j + 1, operands, totIdx + 1, junk,
                      out \o sep \o <<ValTok(GetOperand(operands, totIdx, junk))>>)
             ELSE PrintAccessorLoop(array, j + 1, operands, totIdx, junk,
                      out \o sep \o <<IntTok(array[j])>>)

\* the printer on one accessor array: brackets only around a non-empty array
PrintAccessor(array, operands, totIdx, junk) ==
    LET body == PrintAccessorLoop(array, 1, operands, totIdx, junk, <<>>)
    IN  IF Len(array) = 0 THEN [toks |-> <<>>, totIdx |-> totIdx]
        ELSE [toks |-> <<Tok("[")>> \o body.toks \o <<Tok("]")>>, totIdx |-> body.totIdx]

(***************************************************************************)
(* The accessor grammar on its own                                         *)
(***************************************************************************)
\* the longest accessor list tried
MaxComps == 4
\* SSA values an out-of-range operand read may yield (0: none, the read traps)
JunkValues == {0, 9}

AccComps == {ValTok(1), ValTok(2), IntTok(-1), IntTok(1), IntTok(2), IntTok(3), FloatTok(1)}

RECURSIVE CompLists(_)
CompLists(n) ==
    IF n = 0 THEN {<<>>}
    ELSE CompLists(n - 1)
         \cup {Append(l, c) : l \in {x \in CompLists(n - 1) : Len(x) = n - 1}, c \in AccComps}

RECURSIVE Joined(_)
Joined(l) ==
    IF Len(l) = 0 THEN <<>>
    ELSE IF Len(l) = 1 THEN <<l[1]>>
    ELSE <<l[1], Tok(",")>> \o Joined(Tail(l))

Bracketed(l) == <<Tok("[")>> \o Joined(l) \o <<Tok("]")>>
\* the list cut off behind a comma, or behind its last component
CutAfterComma(l) == <<Tok("[")>> \o Joined(l) \o <<Tok(","), Tok(":")>>
CutAfterComp(l) == <<Tok("[")>> \o Joined(l) \o <<Tok(":")>>

AccTexts ==
    {<<>>, <<Tok(":")>>}
    \cup {Bracketed(l) : l \in CompLists(MaxComps)}
    \cup {CutAfterComma(l) : l \in CompLists(MaxComps) \ {<<>>}}
    \cup {CutAfterComp(l) : l \in CompLists(MaxComps)}

ParseAccessorStep ==
    /\ ares = Idle
    /\ ares' = [st |-> "parsed"] @@ ParseOperandOrIntAttrList(atext, 1, kDynamicSize)
    /\ UNCHANGED <<atext, aprinted, typeVars, opVars>>

PrintAccessorStep ==
    \E junk \in JunkValues :
        /\ ares # Idle /\ ares.ok
        /\ aprinted = Idle
        /\ aprinted' = [st |-> "printed"] @@ PrintAccessor(ares.acc, ares.ssa, 0, junk)
        /\ UNCHANGED <<atext, ares, typeVars, opVars>>

(***************************************************************************)
(* Operation families of the register access interface                     *)
(***************************************************************************)
\* What OpClass::getRegLikeArray() and OpClass::getSegmentSizesArraySize()
\* return for a gate on one target (H), a gate on a control and a target (CX),
\* a rotation gate (RZ; R is alike) and the controlled-operation wrapper (c):
\* the mask has one bit per non-accessor operand, the rotation angle and the
\* held operation included, and there is one segment per operand and one more
\* per register-like operand.
Families ==
    {[name |-> "H", mask |-> <<TRUE>>, rotation |-> FALSE],
     [name |-> "CX", mask |-> <<TRUE, TRUE>>, rotation |-> FALSE],
     [name |-> "RZ", mask |-> <<FALSE, TRUE>>, rotation |-> TRUE],
     [name |-> "c", mask |-> <<FALSE, TRUE, TRUE>>, rotation |-> FALSE]}

Family(name) == CHOOSE f \in Families : f.name = name

\* getRegLikeArray().second
NumRegLike(fam) == Cardinality({i \in 1..Len(fam.mask) : fam.mask[i]})

\* getSegmentSizesArraySize()
SegmentSizesArraySize(fam) == Len(fam.mask) + NumRegLike(fam)

(***************************************************************************)
(* parseOperandListWithAccessors                                           *)
(***************************************************************************)
Diag(msg) == [msg |-> msg, expected |-> 0, actual |-> 0]
NoDiag == Diag("")

\* segmentSizes[idx] = val, idx counted from 0; a write past the vector's
\* size is undefined and leaves the vector as it is
SegWrite(seg, idx, val) ==
    IF idx + 1 \in 1..Len(seg) THEN [seg EXCEPT ![idx + 1] = val] ELSE seg

Repeat(x, n) == [i \in 1..n |-> x]

\* The do-while loop of parseOperandListWithAccessors, entered with the cursor
\* at ps.pos. An indexing of isRegLike or of segmentSizes out of bounds is
\* undefined: with ub = "trap" the access traps (the build checks indices),
\* else the write is lost and the mask bit read is whatever ub says.
RECURSIVE OperandListLoop(_, _, _, _)

\* while (succeeded(parser.parseOptionalComma()))
ContinueList(fam, toks, q, ub) ==
    IF At(toks, q.pos) = Tok(",")
    THEN OperandListLoop(fam, toks, [q EXCEPT !.pos = @ + 1], ub)
    ELSE q

\* the accessor list a of a register-like operand is stored
StoreAccessors(ps1, a) ==
    [ps1 EXCEPT !.accs = Append(@, a.acc),
                !.accNames = Append(@, ps1.currRegLike),
                !.currRegLike = @ + 1,
                !.operands = @ \o a.ssa,
                !.types = @ \o Repeat("index", Len(a.ssa)),
                !.seg = SegWrite(@, ps1.totalParsed, Len(a.ssa)),
                !.totalParsed = @ + 1,
                !.pos = a.pos,
                !.parsed = @ + 1,
                !.oob = @ \/ ps1.totalParsed >= Len(ps1.seg),
                !.failedAt = IF @ = 0 THEN a.failedAt ELSE @,
                !.late = @ \/ a.late]

\* a register-like operand, a being what parseOperandOrIntAttrList returned
AccessorsParsed(fam, toks, ps1, ub, a) ==
    IF ~a.ok
    THEN [ps1 EXCEPT !.status = "failure", !.diag = Diag(a.diag), !.pos = a.pos,
                     !.failedAt = IF @ = 0 THEN a.failedAt ELSE @, !.late = @ \/ a.late]
    ELSE IF ps1.totalParsed >= Len(ps1.seg) /\ ub = "trap"
    THEN [StoreAccessors(ps1, a) EXCEPT !.status = "crash"]
    ELSE ContinueList(fam, toks, StoreAccessors(ps1, a), ub)

\* the operand v is pushed, with its segment of size 1
PushOperand(ps, v, oob) ==
    [ps EXCEPT !.operands = Append(@, v),
               !.types = Append(@, "null"),
               !.seg = SegWrite(@, ps.totalParsed, 1),
               !.totalParsed = @ + 1,
               !.pos = @ + 1,
               !.oob = @ \/ oob]

\* segmentSizes[totalParsed] or isRegLike[parsed] is out of bounds
OutOfBounds(fam, ps) == ps.totalParsed >= Len(ps.seg) \/ ps.parsed >= Len(fam.mask)

\* isRegLike[parsed]
IsRegLike(fam, ps, ub) ==
    IF ps.parsed >= Len(fam.mask) THEN ub = "true" ELSE fam.mask[ps.parsed + 1]

\* behind the operand: its accessor list if it is register-like
OperandParsed(fam, toks, ps1, ub, oob, isRegLike) ==
    IF oob /\ ub = "trap" THEN [ps1 EXCEPT !.status = "crash"]
    ELSE IF ~isRegLike THEN ContinueList(fam, toks, [ps1 EXCEPT !.parsed = @ + 1], ub)
    ELSE AccessorsParsed(fam, toks, ps1, ub,
                         ParseOperandOrIntAttrList(toks, ps1.pos, kDynamicSize))

\* one iteration, res being what parseOptionalOperand returned
OperandStep(fam, toks, ps, ub, res) ==
    IF ~res.has THEN ContinueList(fam, toks, ps, ub)
    ELSE IF ~res.ok
    THEN [ps EXCEPT !.status = "failure", !.diag = Diag("invalid SSA value result number"),
                    !.pos = res.pos,
                    !.failedAt = IF @ = 0 THEN res.pos ELSE @]
    ELSE OperandParsed(fam, toks, PushOperand(ps, res.v, OutOfBounds(fam, ps)), ub,
                       OutOfBounds(fam, ps), IsRegLike(fam, ps, ub))

OperandListLoop(fam, toks, ps, ub) ==
    OperandStep(fam, toks, ps, ub, ParseOptionalOperand(toks, ps.pos))

\* "fill the static accessor array attributes for non-parsed operands with
\* empty arrays", and `parsed -= origParsed`
FillAccessors(fam, origParsed, r, missing) ==
    IF r.status # "run" THEN r
    ELSE [r EXCEPT !.accs = @ \o Repeat(<<>>, missing),
                   !.accNames = @ \o [k \in 1..missing |-> r.currRegLike + k - 1],
                   !.currRegLike = @ + missing,
                   !.parsed = @ - origParsed]

\* the register-like operands that were not parsed
MissingAccessors(fam, r) ==
    IF r.currRegLike < NumRegLike(fam) THEN NumRegLike(fam) - r.currRegLike ELSE 0

FillAfterLoop(fam, origParsed, r) == FillAccessors(fam, origParsed, r, MissingAccessors(fam, r))

\* parseOperandListWithAccessors: the loop, then an empty accessor array for
\* every register-like operand that was not parsed; `parsed` comes back as the
\* number of non-accessor operands parsed here. accs holds the accessor
\* attributes in the order of their addAttribute calls, accNames the index
\* each was named by (getAccessorAttrName(currRegLike++))
ParseOperandListWithAccessors(fam, toks, ps, ub) ==
    FillAfterLoop(fam, ps.parsed,
                  OperandListLoop(fam, toks, [ps EXCEPT !.totalParsed = ps.parsed], ub))

(***************************************************************************)
(* parseRegAccessOps                                                       *)
(***************************************************************************)
TypeNames == {"f64", "q", "index"}

\* the tail of p.parseTypeList: more types behind commas
RECURSIVE TypeListMore(_, _, _)
TypeListMore(toks, pos, types) ==
    IF At(toks, pos) # Tok(",") THEN [ok |-> TRUE, types |-> types, pos |-> pos]
    ELSE IF At(toks, pos + 1)[1] \notin TypeNames
    THEN [ok |-> FALSE, types |-> types, pos |-> pos + 1]
    ELSE TypeListMore(toks, pos + 2, Append(types, At(toks, pos + 1)[1]))

\* p.parseTypeList: one type or more, separated by commas
ParseTypeList(toks, pos) ==
    IF At(toks, pos)[1] \notin TypeNames THEN [ok |-> FALSE, types |-> <<>>, pos |-> pos]
    ELSE TypeListMore(toks, pos + 1, <<At(toks, pos)[1]>>)

\* succeeded(p.parseOptionalColon()) && p.parseTypeList(nonAccessorOperandTypes)
ParseOptionalColonTypeList(toks, pos) ==
    IF At(toks, pos) # Tok(":") THEN [ok |-> TRUE, types |-> <<>>, pos |-> pos]
    ELSE ParseTypeList(toks, pos + 1)

\* p.parseOptionalAttrDict: the texts carry a whole dictionary as one token
ParseOptionalAttrDict(toks, pos) ==
    IF At(toks, pos)[1] = "{}" THEN [ok |-> TRUE, pos |-> pos + 1]
    ELSE IF At(toks, pos)[1] = "{" THEN [ok |-> FALSE, pos |-> pos]
    ELSE [ok |-> TRUE, pos |-> pos]

\* numMissingTypes, once the operand list is parsed
MissingTypesMutant(phiOperands, parsed, accessorOperands) ==
    phiOperands + parsed + accessorOperands
MissingTypes(phiOperands, parsed, accessorOperands) == phiOperands + parsed

\* numMissingTypes != nonAccessorOperandTypes.size()
CountMismatchMutant(numMissingTypes, supplied) == numMissingTypes > supplied
CountMismatch(numMissingTypes, supplied) == numMissingTypes # supplied

\* the loop that gives every operand without a type the next supplied type
RECURSIVE FillTypes(_, _)
FillTypes(types, supplied) ==
    IF Len(types) = 0 THEN <<>>
    ELSE IF Head(types) = "null"
    THEN <<IF Len(supplied) > 0 THEN Head(supplied) ELSE "null">>
         \o FillTypes(Tail(types), IF Len(supplied) > 0 THEN Tail(supplied) ELSE supplied)
    ELSE <<Head(types)>> \o FillTypes(Tail(types), supplied)

\* p.resolveOperands: every operand with its type
ResolveOperands(operands, types) == [i \in 1..Len(operands) |-> <<operands[i], types[i]>>]

ParseStart(fam, pos) ==
    [status |-> "run", diag |-> NoDiag, pos |-> pos,
     operands |-> <<>>, types |-> <<>>,
     seg |-> Repeat(0, SegmentSizesArraySize(fam)),
     accs |-> <<>>, accNames |-> <<>>, phi |-> None, phiOperand |-> FALSE,
     parsed |-> 0, totalParsed |-> 0, currRegLike |-> 0, oob |-> FALSE,
     numMissingTypes |-> 0, supplied |-> <<>>, resolved |-> <<>>, results |-> <<>>,
     failedAt |-> 0, late |-> FALSE]

\* return failure(): the first failure is where the cursor stands now, and a
\* failure behind an earlier one has run late
Failed(ps, d, pos) ==
    [ps EXCEPT !.status = "failure", !.diag = d, !.pos = pos,
               !.failedAt = IF @ = 0 THEN pos ELSE @,
               !.late = ps.failedAt # 0]

\* the rotation gates' angle: ( [attribute] [operand] )
ParseAngle(toks, ps) ==
    IF At(toks, ps.pos) # Tok("(") THEN Failed(ps, Diag("expected '('"), ps.pos)
    ELSE
    LET p1 == ps.pos + 1
        a == At(toks, p1)
        hasAttr == a[1] \in {"float", "int", "#"}
        p2 == IF hasAttr THEN p1 + 1 ELSE p1
        o == At(toks, p2)
        res == ParseOptionalOperand(toks, p2)
        hasOperand == res.has
        p3 == res.pos
    IN  IF hasAttr /\ a[1] # "float"
        THEN Failed(ps, Diag("invalid kind of attribute specified"), p1)
        ELSE IF res.has /\ ~res.ok
        THEN Failed([ps EXCEPT !.phi = IF hasAttr THEN Some(a[2]) ELSE None],
                    Diag("invalid SSA value result number"), res.pos)
        ELSE IF At(toks, p3) # Tok(")")
        THEN Failed([ps EXCEPT !.phi = IF hasAttr THEN Some(a[2]) ELSE None],
                    Diag("expected ')'"), p3)
        ELSE [ps EXCEPT !.phi = IF hasAttr THEN Some(a[2]) ELSE None,
                        !.phiOperand = hasOperand,
                        !.operands = IF hasOperand THEN <<o[2]>> ELSE <<>>,
                        !.types = IF hasOperand THEN <<"null">> ELSE <<>>,
                        !.seg = IF hasOperand THEN SegWrite(@, 0, 1) ELSE @,
                        !.numMissingTypes = IF hasOperand THEN 1 ELSE 0,
                        !.parsed = 1,
                        !.pos = p3 + 1]

\* parseRegAccessOps from the type list on
ParseTypesAndResults(toks, ps) ==
    LET d == ParseOptionalAttrDict(toks, ps.pos)
        tl == ParseOptionalColonTypeList(toks, d.pos)
        accessorOperands == Len(SelectSeq(ps.types, LAMBDA x : x = "index"))
        phiOperands == IF ps.phiOperand THEN 1 ELSE 0
        numMissingTypes == MissingTypes(phiOperands, ps.parsed, accessorOperands)
        allTypes == FillTypes(ps.types, tl.types)
        arrow == At(toks, tl.pos) = Tok("->")
        rl == ParseTypeList(toks, tl.pos + 1)
        ps1 == [ps EXCEPT !.numMissingTypes = numMissingTypes, !.supplied = tl.types]
    IN  IF ~d.ok THEN Failed(ps, Diag("attribute dictionary"), d.pos)
        ELSE IF ~tl.ok THEN Failed(ps1, Diag("expected type"), tl.pos)
        ELSE IF CountMismatch(numMissingTypes, Len(tl.types))
        THEN Failed(ps1, [msg |-> "number of provided operand types doesn't match expected",
                          expected |-> numMissingTypes, actual |-> Len(tl.types)], d.pos)
        ELSE LET ps2 == [ps1 EXCEPT !.types = allTypes,
                                    !.resolved = ResolveOperands(ps.operands, allTypes),
                                    !.pos = tl.pos]
             IN  IF ~arrow THEN [ps2 EXCEPT !.status = "success"]
                 ELSE IF ~rl.ok THEN Failed(ps2, Diag("expected type"), rl.pos)
                 ELSE [ps2 EXCEPT !.status = "success", !.results = rl.types,
                                  !.pos = rl.pos]

\* behind the operand list
AfterOperands(toks, ps2) ==
    IF ps2.status # "run" THEN ps2 ELSE ParseTypesAndResults(toks, ps2)

\* behind the angle of a rotation gate
AfterAngle(fam, toks, ub, ps1) ==
    IF ps1.status # "run" THEN ps1
    ELSE AfterOperands(toks, ParseOperandListWithAccessors(fam, toks, ps1, ub))

\* parseRegAccessOps<OpClass>, the cursor behind the operation's name
ParseRegAccessOps(fam, toks, pos, ub) ==
    AfterAngle(fam, toks, ub,
               IF fam.rotation THEN ParseAngle(toks, ParseStart(fam, pos))
               ELSE ParseStart(fam, pos))

(***************************************************************************)
(* print<OpClass>                                                          *)
(***************************************************************************)
DropFront(seq, n) == IF n >= Len(seq) THEN <<>> ELSE SubSeq(seq, n + 1, Len(seq))

Printed(toks) == [status |-> "ok", toks |-> toks]
PrintCrash(toks) == [status |-> "crash", toks |-> toks]

\* "print all operands, including any register indeces in brackets": the
\* first for loop of print, at operand totIdx. A read of the mask past its
\* end is undefined (ub, as in the parser); an accessor attribute that is not
\* there is a null attribute, whose size() traps.
RECURSIVE PrintOperands(_, _, _, _, _, _, _, _)
PrintOperands(maskValues, o, totIdx, argIdx, reglikeIdx, ub, junk, out) ==
    IF totIdx >= Len(o.operands) THEN Printed(out)
    ELSE
    LET out1 == Append(out, ValTok(GetOperand(o.operands, totIdx, junk)))
        oobMask == argIdx >= Len(maskValues)
        isRegLike == IF oobMask THEN ub = "true" ELSE maskValues[argIdx + 1]
    IN  IF oobMask /\ ub = "trap" THEN PrintCrash(out1)
        ELSE IF ~isRegLike
        THEN PrintOperands(maskValues, o, totIdx + 1, argIdx + 1, reglikeIdx, ub, junk, out1)
        ELSE IF reglikeIdx >= Len(o.accs) THEN PrintCrash(out1)
        ELSE LET a == PrintAccessor(o.accs[reglikeIdx + 1], o.operands, totIdx + 1, junk)
             IN  PrintOperands(maskValues, o, a.totIdx, argIdx + 1, reglikeIdx + 1, ub, junk,
                               out1 \o a.toks)

\* "print the operand types except those that are register indeces": the
\* second for loop of print
RECURSIVE PrintOperandTypes(_, _, _, _, _, _, _)
PrintOperandTypes(maskTypes, o, totIdx, argIdx, reglikeIdx, ub, out) ==
    IF totIdx >= Len(o.operands) THEN Printed(out)
    ELSE
    LET sep == IF totIdx = 0 THEN <<>> ELSE <<Tok(",")>>
        out1 == out \o sep \o <<Tok(o.types[totIdx + 1])>>
        oobMask == argIdx >= Len(maskTypes)
        isRegLike == IF oobMask THEN ub = "true" ELSE maskTypes[argIdx + 1]
    IN  IF oobMask /\ ub = "trap" THEN PrintCrash(out1)
        ELSE IF ~isRegLike
        THEN PrintOperandTypes(maskTypes, o, totIdx + 1, argIdx + 1, reglikeIdx, ub, out1)
        ELSE IF reglikeIdx >= Len(o.accs) THEN PrintCrash(out1)
        ELSE LET dyn == Len(SelectSeq(o.accs[reglikeIdx + 1],
                                      LAMBDA x : x = PrintedDynamic))
             IN  PrintOperandTypes(maskTypes, o, totIdx + 1 + dyn, argIdx + 1,
                                   reglikeIdx + 1, ub, out1)

\* p.printOptionalArrowTypeList
PrintOptionalArrowTypeList(results) ==
    IF Len(results) = 0 THEN <<>>
    ELSE <<Tok("->")>> \o Joined([i \in 1..Len(results) |-> Tok(results[i])])

\* print<OpClass>(p, op)
PrintOp(fam, o, ub, junk) ==
    LET operandForm == Len(o.operands) > 0 /\ o.types[1] = "f64"
        angle == IF ~fam.rotation THEN <<>>
                 ELSE <<Tok("(")>>
                      \o (IF operandForm THEN <<ValTok(o.operands[1])>>
                          ELSE IF o.phi = None THEN <<Tok("<<NULL ATTRIBUTE>>")>>
                          ELSE <<FloatTok(o.phi[1])>>)
                      \o <<Tok(")")>>
        start == IF fam.rotation /\ operandForm THEN 1 ELSE 0
        isRegLikeValues == IF fam.rotation THEN DropFront(fam.mask, 1) ELSE fam.mask
        isRegLikeTypes == IF fam.rotation /\ ~operandForm THEN DropFront(fam.mask, 1)
                          ELSE fam.mask
        vals == PrintOperands(isRegLikeValues, o, start, 0, 0, ub, junk,
                              <<Tok(fam.name)>> \o angle)
        colon == IF Len(o.operands) > 0 THEN <<Tok(":")>> ELSE <<>>
        tys == PrintOperandTypes(isRegLikeTypes, o, 0, 0, 0, ub, vals.toks \o colon)
    IN  IF vals.status # "ok" THEN vals
        ELSE IF tys.status # "ok" THEN tys
        ELSE Printed(tys.toks \o PrintOptionalArrowTypeList(o.results))

(***************************************************************************)
(* Operation texts and the parse / print / parse pipeline                  *)
(***************************************************************************)
\* the most operands in the operand list of a text
MaxOperands == 3
\* the most types in the type list of a text
MaxTypes == 3

\* the accessor lists the operands of a text carry
OpAccessors ==
    {<<>>, <<ValTok(7)>>, <<IntTok(-1)>>, <<IntTok(2), ValTok(8), IntTok(1)>>}

Leads(fam) == IF fam.rotation THEN {"lit", "val", "both", "neither"} ELSE {"none"}

\* operand lists of n operands, the i-th being %i
RECURSIVE ItemLists(_)
ItemLists(n) ==
    IF n = 0 THEN {<<>>}
    ELSE {Append(l, [v |-> n, acc |-> a]) : l \in ItemLists(n - 1), a \in OpAccessors}

\* type lists of n types: f64 is tried in front, index at the end
TypeLists(n) ==
    {[i \in 1..n |-> IF i = 1 THEN first ELSE IF i = n THEN final ELSE "q"] :
        first \in {"f64", "q"}, final \in {"q", "index"}}

Inputs ==
    {[fam |-> f.name, lead |-> l, items |-> it, types |-> ty, arrow |-> ar] :
        f \in Families, l \in {"none", "lit", "val", "both", "neither"},
        it \in UNION {ItemLists(n) : n \in 0..MaxOperands},
        ty \in UNION {TypeLists(n) : n \in 0..MaxTypes},
        ar \in BOOLEAN}

RenderLead(lead) ==
    CASE lead = "lit" -> <<Tok("("), FloatTok(1), Tok(")")>>
      [] lead = "val" -> <<Tok("("), ValTok(5), Tok(")")>>
      [] lead = "both" -> <<Tok("("), FloatTok(1), ValTok(5), Tok(")")>>
      [] lead = "neither" -> <<Tok("("), Tok(")")>>
      [] OTHER -> <<>>

RenderItem(item) ==
    <<ValTok(item.v)>> \o (IF item.acc = <<>> THEN <<>> ELSE Bracketed(item.acc))

RECURSIVE RenderItems(_)
RenderItems(items) ==
    IF Len(items) = 0 THEN <<>>
    ELSE IF Len(items) = 1 THEN RenderItem(items[1])
    ELSE RenderItem(items[1]) \o <<Tok(",")>> \o RenderItems(Tail(items))

Render(i) ==
    <<Tok(i.fam)>> \o RenderLead(i.lead) \o RenderItems(i.items)
    \o (IF Len(i.types) = 0 THEN <<>>
        ELSE <<Tok(":")>> \o Joined([k \in 1..Len(i.types) |-> Tok(i.types[k])]))
    \o (IF i.arrow THEN <<Tok("->"), Tok("q")>> ELSE <<>>)

UBChoices == {"trap", "true", "false"}

\* the framework reads the operation's name and calls its parser
ParseOpStep ==
    \E ub \in UBChoices :
        /\ op = Idle
        /\ op' = [st |-> "parsed"] @@ ParseRegAccessOps(Family(inp.fam), text, 2, ub)
        /\ UNCHANGED <<inp, text, printed, op2, typeVars, accVars>>

\* the parsed operation is printed
PrintOpStep ==
    \E ub \in UBChoices, junk \in JunkValues :
        /\ op # Idle /\ op.status = "success"
        /\ printed = Idle
        /\ printed' = [st |-> "printed"] @@ PrintOp(Family(inp.fam), op, ub, junk)
        /\ UNCHANGED <<inp, text, op, op2, typeVars, accVars>>

\* what was printed is parsed again
ReparseOpStep ==
    \E ub \in UBChoices :
        /\ printed # Idle /\ printed.status = "ok"
        /\ op2 = Idle
        /\ op2' = [st |-> "parsed"]
                  @@ ParseRegAccessOps(Family(inp.fam), printed.toks, 2, ub)
        /\ UNCHANGED <<inp, text, op, printed, typeVars, accVars>>

TypeInit ==
    /\ storage = {}
    /\ last = NoRequest

AccIdle == atext = <<>> /\ ares = Idle /\ aprinted = Idle
OpIdle == inp = Idle /\ text = <<>> /\ op = Idle /\ printed = Idle /\ op2 = Idle

TypeIdle == TypeInit

InitTypes == TypeInit /\ AccIdle /\ OpIdle
NextTypes == GetQureg \/ GetCOp \/ ParseTypeStep \/ ReparseTypeStep
SpecTypes == InitTypes /\ [][NextTypes]_vars

InitAccessors == atext \in AccTexts /\ ares = Idle /\ aprinted = Idle /\ TypeIdle /\ OpIdle
NextAccessors == ParseAccessorStep \/ PrintAccessorStep
SpecAccessors == InitAccessors /\ [][NextAccessors]_vars

InitOps ==
    /\ inp \in {i \in Inputs : i.lead \in Leads(Family(i.fam))}
    /\ text = Render(inp)
    /\ op = Idle /\ printed = Idle /\ op2 = Idle
    /\ TypeIdle /\ AccIdle
NextOps == ParseOpStep \/ PrintOpStep \/ ReparseOpStep
SpecOps == InitOps /\ [][NextOps]_vars


(***************************************************************************)
(* The parametric circuit call: parseVariadicOperandWithAccessors and      *)
(* parseParametricCircuitOp                                                *)
(***************************************************************************)
\* The do-while loop of parseVariadicOperandWithAccessors, the cursor at
\* cs.pos: an operand and its accessor list, then more behind commas; the
\* loop ends where no operand is found
RECURSIVE VariadicLoop(_, _)

\* the operand v and its accessor list a are stored
StoreVariadic(cs, v, a) ==
    [cs EXCEPT !.varOperands = Append(@, v),
               !.parsedOperands = @ + 1,
               !.pos = a.pos,
               !.failedAt = IF @ = 0 THEN a.failedAt ELSE @,
               !.late = @ \/ a.late,
               !.varAccessors = @ \o a.ssa,
               !.accs = Append(@, a.acc),
               !.parsedAccessors = @ + Len(a.ssa)]

\* while (succeeded(parser.parseOptionalComma()))
ContinueVariadic(toks, q) ==
    IF At(toks, q.pos) = Tok(",") THEN VariadicLoop(toks, [q EXCEPT !.pos = @ + 1]) ELSE q

\* an operand, a being what parseOperandOrIntAttrList returned behind it
VariadicAccessors(toks, cs, v, a) ==
    IF ~a.ok
    THEN [cs EXCEPT !.varOperands = Append(@, v),
                    !.parsedOperands = @ + 1,
                    !.pos = a.pos,
                    !.failedAt = IF @ = 0 THEN a.failedAt ELSE @,
                    !.late = @ \/ a.late,
                    !.status = "failure", !.diag = Diag(a.diag)]
    ELSE ContinueVariadic(toks, StoreVariadic(cs, v, a))

\* one iteration, res being what parseOptionalOperand returned
VariadicStep(toks, cs, res) ==
    IF ~res.has THEN cs
    ELSE IF ~res.ok
    THEN [cs EXCEPT !.status = "failure", !.diag = Diag("invalid SSA value result number"),
                    !.pos = res.pos,
                    !.failedAt = IF @ = 0 THEN res.pos ELSE @]
    ELSE VariadicAccessors(toks, cs, res.v,
                           ParseOperandOrIntAttrList(toks, res.pos, kDynamicSize))

VariadicLoop(toks, cs) == VariadicStep(toks, cs, ParseOptionalOperand(toks, cs.pos))

\* parseVariadicOperandWithAccessors
ParseVariadicOperandWithAccessors(toks, cs) ==
    VariadicLoop(toks, [cs EXCEPT !.parsedOperands = 0, !.parsedAccessors = 0])

CircStart(pos) ==
    [status |-> "run", diag |-> NoDiag, pos |-> pos,
     callee |-> FALSE, n |-> None,
     varOperands |-> <<>>, varAccessors |-> <<>>,
     operands |-> <<>>, types |-> <<>>, seg |-> <<>>, accs |-> <<>>, accAttr |-> FALSE,
     parsedOperands |-> 0, parsedAccessors |-> 0,
     supplied |-> <<>>, resolved |-> <<>>, results |-> <<>>,
     failedAt |-> 0, late |-> FALSE]

\* the number of types the type list has to supply
CircMissingTypesMutant(parsedOperands, parsedAccessors) == parsedOperands + parsedAccessors
CircMissingTypes(parsedOperands, parsedAccessors) == parsedOperands

\* the accessor operands appended, the accessor attribute and the segment
\* sizes added
AddCircAttributes(v) ==
    [v EXCEPT !.operands = v.varOperands \o v.varAccessors,
              !.accAttr = TRUE,
              !.seg = <<v.parsedOperands, v.parsedAccessors>>]

\* the optional arrow and the result types, rl being what parseTypeList
\* returns behind an arrow
ParseCircResults(toks, v3, rl) ==
    IF At(toks, v3.pos) # Tok("->") THEN [v3 EXCEPT !.status = "success"]
    ELSE IF ~rl.ok THEN Failed(v3, Diag("expected type"), rl.pos)
    ELSE [v3 EXCEPT !.status = "success", !.results = rl.types, !.pos = rl.pos]

\* the type list tl against the operands; loc is where the type list starts
ParseCircTypes(toks, v1, loc, tl, expected) ==
    IF ~tl.ok THEN Failed([v1 EXCEPT !.supplied = tl.types], Diag("expected type"), tl.pos)
    ELSE IF expected # Len(tl.types)
    THEN Failed([v1 EXCEPT !.supplied = tl.types],
                [msg |-> "number of provided operand types doesn't match expected",
                 expected |-> expected, actual |-> Len(tl.types)], loc)
    ELSE ParseCircResults(toks,
            [v1 EXCEPT !.supplied = tl.types,
                       !.types = tl.types \o Repeat("index", v1.parsedAccessors),
                       !.resolved = ResolveOperands(v1.operands,
                                        tl.types \o Repeat("index", v1.parsedAccessors)),
                       !.pos = tl.pos],
            ParseTypeList(toks, tl.pos + 1))

\* the closing parenthesis and the attribute dictionary d behind it
ParseCircDict(toks, v1, d) ==
    IF At(toks, v1.pos) # Tok(")") THEN Failed(v1, Diag("expected ')'"), v1.pos)
    ELSE IF ~d.ok THEN Failed(v1, Diag("attribute dictionary"), d.pos)
    ELSE ParseCircTypes(toks, v1, d.pos, ParseOptionalColonTypeList(toks, d.pos),
                        CircMissingTypes(v1.parsedOperands, v1.parsedAccessors))

\* behind the variadic operands, v being what
\* parseVariadicOperandWithAccessors returned
AfterVariadic(toks, v) ==
    IF v.status # "run" THEN v
    ELSE ParseCircDict(toks, AddCircAttributes(v), ParseOptionalAttrDict(toks, v.pos + 1))

\* parseParametricCircuitOp from the variadic operands on
ParseCircOperandsAndTypes(toks, cs) ==
    AfterVariadic(toks, ParseVariadicOperandWithAccessors(toks, cs))

\* parseParametricCircuitOp, the cursor behind the operation's name
ParseParametricCircuitOp(toks, pos) ==
    LET cs == CircStart(pos)
    IN  IF At(toks, pos) # Tok("@")
        THEN Failed(cs, Diag("expected attribute value"), pos)
        ELSE IF At(toks, pos + 1) # Tok("(")
        THEN Failed([cs EXCEPT !.callee = TRUE], Diag("expected '('"), pos + 1)
        ELSE IF At(toks, pos + 2)[1] # "int"
        THEN Failed([cs EXCEPT !.callee = TRUE], Diag("expected attribute value"), pos + 2)
        ELSE IF At(toks, pos + 3) # Tok(",")
        THEN Failed([cs EXCEPT !.callee = TRUE, !.n = Some(At(toks, pos + 2)[2])],
                    Diag("expected ','"), pos + 3)
        ELSE ParseCircOperandsAndTypes(toks,
                [cs EXCEPT !.callee = TRUE, !.n = Some(At(toks, pos + 2)[2]),
                           !.pos = pos + 4])

\* circuit calls: the operands with their accessor lists, written each behind a
\* comma; `comma` writes one more comma in front of the closing parenthesis
CircInputs ==
    {[fam |-> "circ", items |-> it, types |-> ty, arrow |-> ar, comma |-> cm] :
        it \in UNION {ItemLists(n) : n \in 0..MaxOperands},
        ty \in UNION {TypeLists(n) : n \in 0..MaxTypes},
        ar \in BOOLEAN, cm \in BOOLEAN}

RECURSIVE RenderCircItems(_)
RenderCircItems(items) ==
    IF Len(items) = 0 THEN <<>>
    ELSE <<Tok(",")>> \o RenderItem(items[1]) \o RenderCircItems(Tail(items))

RenderCirc(i) ==
    <<Tok("circ"), Tok("@"), Tok("("), IntTok(2)>> \o RenderCircItems(i.items)
    \o (IF i.comma THEN <<Tok(",")>> ELSE <<>>) \o <<Tok(")")>>
    \o (IF Len(i.types) = 0 THEN <<>>
        ELSE <<Tok(":")>> \o Joined([k \in 1..Len(i.types) |-> Tok(i.types[k])]))
    \o (IF i.arrow THEN <<Tok("->"), Tok("q")>> ELSE <<>>)

\* the framework reads the operation's name and calls its parser
ParseCircStep ==
    /\ op = Idle
    /\ op' = [st |-> "parsed"] @@ ParseParametricCircuitOp(text, 2)
    /\ UNCHANGED <<inp, text, printed, op2, typeVars, accVars>>

InitCirc ==
    /\ inp \in CircInputs
    /\ text = RenderCirc(inp)
    /\ op = Idle /\ printed = Idle /\ op2 = Idle
    /\ TypeIdle /\ AccIdle
NextCirc == ParseCircStep
SpecCirc == InitCirc /\ [][NextCirc]_vars

(***************************************************************************)
(* Properties of the type registry                                         *)
(***************************************************************************)
GotType(kind) == last.via = "get" /\ last.kind = kind

QuregText(n) == <<Tok("qureg"), Tok("<"), IntTok(n), Tok(">")>>
COpText(n, b) == <<Tok("cop"), Tok("<"), IntTok(n), Tok(","), Tok("!qs"), Tok(b), Tok(">")>>
COpTextNoBase(n) == <<Tok("cop"), Tok("<"), IntTok(n), Tok(">")>>

\* C2 (interning): two successive successful get requests of one parametric
\* type return the same handle if and only if their parameter tuples are equal,
\* an absent parameter being different from every present integer.
C2_InterningIff ==
    [][(/\ last.via = "get" /\ last.ok
        /\ last'.via = "get" /\ last'.ok
        /\ last'.kind = last.kind)
       => ((last'.t = last.t) <=> (last'.n = last.n /\ last'.base = last.base))]_vars

\* C3 (Qureg size constraint): a Qureg request or a parsed qureg<N> with a
\* present size of 1, 0 or a negative value fails and yields no type;
\* Qureg(size=2) and Qureg() succeed and are types of size 2 and of no size.
C3_QuregSizeConstraint ==
    /\ (GotType("qureg") /\ last.n # None /\ last.n[1] <= 1)
            => (~last.ok /\ last.t = NullType)
    /\ (GotType("qureg") /\ last.n \in {None, Some(2)})
            => (last.ok /\ last.t.kind = "qureg" /\ last.t.n = last.n)
    /\ \A n \in ParamValues :
            (last.via = "parse" /\ last.text = QuregText(n) /\ n <= 1) => ~last.ok
    /\ (last.via = "parse" /\ last.text = QuregText(2))
            => (last.ok /\ last.t.n = Some(2))

\* C4 (ControlledOp constraint): a COp request or a parsed cop<N, T> fails when
\* a present numControls is not > 0 or a present base type is neither u1, u2
\* nor circ; COp(2, u1), COp(2, u2) and COp(2, circ) succeed.
C4_COpConstraint ==
    /\ (GotType("cop") /\ last.n # None /\ last.n[1] <= 0) => ~last.ok
    /\ (GotType("cop") /\ last.base \notin {"null", "u1", "u2", "circ"}) => ~last.ok
    /\ (GotType("cop") /\ last.n = Some(2) /\ last.base \in {"u1", "u2", "circ"})
            => (last.ok /\ last.t.n = Some(2) /\ last.t.base = last.base)
    /\ \A n \in ParamValues, b \in SimpleKinds :
            (last.via = "parse" /\ last.text = COpText(n, b))
                => (last.ok <=> (n > 0 /\ b \in {"u1", "u2", "circ"}))

\* a type held under the key of its own parameters
OwnKey(t) == t.kind \in SimpleKinds \/ t.key.k = OptionalToKey(t.n)

\* C5 (type print/parse inverse): parsing the printed text of a type returns
\* that type; a COp without base type prints as cop<N>, and cop<N> parses to
\* the COp of N controls without base type.
C5_TypeRoundTrip ==
    /\ (last.via = "parse" /\ last.src # NullType /\ OwnKey(last.src))
            => /\ last.ok /\ last.t = last.src
               /\ (last.src.kind = "cop" /\ last.src.base = "null" /\ last.src.n # None)
                      => last.text = COpTextNoBase(last.src.n[1])
    /\ \A n \in ParamValues :
            (last.via = "parse" /\ last.text = COpTextNoBase(n) /\ n > 0)
                => (last.ok /\ last.t.kind = "cop" /\ last.t.n = Some(n)
                    /\ last.t.base = "null")

(***************************************************************************)
(* Properties of the accessor grammar                                      *)
(***************************************************************************)
IsComp(t) == t[1] \in {"%", "int"}

\* the text is [ c1, ..., ck ] with k >= 1 components, each a value or an integer
WellFormedList(toks) ==
    /\ Len(toks) >= 3 /\ Len(toks) % 2 = 1
    /\ toks[1] = Tok("[") /\ toks[Len(toks)] = Tok("]")
    /\ \A i \in 2..(Len(toks) - 1) :
            IF i % 2 = 0 THEN IsComp(toks[i]) ELSE toks[i] = Tok(",")

NumComps(toks) == (Len(toks) - 1) \div 2
Comp(toks, i) == toks[2 * i]

ValuesOf(toks) ==
    LET refs == SelectSeq(toks, LAMBDA t : t[1] = "%")
    IN  [i \in 1..Len(refs) |-> refs[i][2]]

AccParsed == ares # Idle
AccPrinted == aprinted # Idle

\* C6 (accessor arity): a list of 4 components fails to parse; lists of 1, 2
\* and 3 components, the empty bracket list and omitted brackets parse, the
\* last two to the same empty accessor list; a bracketed list that parsed has
\* had its closing bracket consumed.
C6_AccessorArity ==
    AccParsed =>
        /\ (WellFormedList(atext) /\ NumComps(atext) = 4) => ~ares.ok
        /\ (WellFormedList(atext) /\ NumComps(atext) \in 1..3) => ares.ok
        /\ atext = <<Tok("["), Tok("]")>> => (ares.ok /\ ares.acc = <<>>)
        /\ At(atext, 1) # Tok("[") => (ares.ok /\ ares.acc = <<>> /\ ares.pos = 1)
        /\ (ares.ok /\ At(atext, 1) = Tok("[")) => At(atext, ares.pos - 1) = Tok("]")

\* C7 (accessor encoding): the stored array has one entry per component, in
\* order; an entry is the dynamic sentinel exactly when the component was a
\* value reference, the side list holds those references in order, a literal
\* is stored as itself; and the printer writes every literal component as its
\* literal and every sentinel as the next value of the side list.
C7_AccessorEncoding ==
    (AccParsed /\ WellFormedList(atext) /\ NumComps(atext) <= MaxAccessors) =>
        /\ ares.ok
        /\ Len(ares.acc) = NumComps(atext)
        /\ \A i \in 1..NumComps(atext) :
              /\ (ares.acc[i] = kDynamicSize) <=> (Comp(atext, i)[1] = "%")
              /\ Comp(atext, i)[1] = "int" => ares.acc[i] = Comp(atext, i)[2]
        /\ ares.ssa = ValuesOf(atext)
        /\ AccPrinted => aprinted.toks = atext

(***************************************************************************)
(* Properties of the operation syntax                                      *)
(***************************************************************************)
OpParsed == op # Idle
OpPrinted == printed # Idle
OpReparsed == op2 # Idle

\* operand positions of the family's list, behind the angle of a rotation gate
Slots(fam) == IF fam.rotation THEN DropFront(fam.mask, 1) ELSE fam.mask

\* the text follows the family's grammar up to its type list: no more
\* operands than the family has, accessor lists on register-like operands only
Placed(i) ==
    /\ Len(i.items) <= Len(Slots(Family(i.fam)))
    /\ \A k \in 1..Len(i.items) : i.items[k].acc # <<>> => Slots(Family(i.fam))[k]

LeadOperands(i) == IF i.lead \in {"val", "both"} THEN 1 ELSE 0

\* the operands of the text that are not accessors
NonAccessorOperands(i) == LeadOperands(i) + Len(i.items)

RECURSIVE AccessorOperands(_)
AccessorOperands(items) ==
    IF Len(items) = 0 THEN 0
    ELSE Len(SelectSeq(items[1].acc, LAMBDA c : c[1] = "%")) + AccessorOperands(Tail(items))

\* the SSA values the texts use as accessors
IsAccessorValue(v) == v \in {7, 8}

Mismatch(expected, actual) ==
    [msg |-> "number of provided operand types doesn't match expected",
     expected |-> expected, actual |-> actual]

\* the text is one the grammar of the family describes, with operand types of
\* the right kind: exactly one angle, a float type for an angle operand only
Grammatical(i) ==
    /\ Placed(i)
    /\ i.lead \in {"none", "lit", "val"}
    /\ Len(i.types) = NonAccessorOperands(i)
    /\ \A k \in 1..Len(i.types) : (i.types[k] = "f64") <=> (k = 1 /\ i.lead = "val")

SameOperation(a, b) ==
    /\ a.operands = b.operands /\ a.types = b.types /\ a.accs = b.accs
    /\ a.seg = b.seg /\ a.phi = b.phi /\ a.results = b.results

\* C1 (round trip): for every text of the grammar the parser accepts, the
\* printer's output is token-identical to the text and parses again to the
\* same operation (operands, accessor attributes, segment sizes, types).
C1_RoundTrip ==
    (OpParsed /\ Grammatical(inp) /\ op.status = "success") =>
        /\ OpPrinted => (printed.status = "ok" /\ printed.toks = text)
        /\ OpReparsed => (op2.status = "success" /\ SameOperation(op2, op))

\* C8 (type elision count): for a text that follows the family's grammar up
\* to its type list, the parse succeeds exactly when the number of types
\* supplied equals the number of non-accessor operands (the angle operand and
\* each primary operand); the accessor operands are typed index and take no
\* supplied type; any other count fails with the mismatch diagnostic naming
\* the expected and the actual count, and no operand is resolved.
C8_TypeElisionCount ==
    (OpParsed /\ Placed(inp)) =>
        /\ op.status \in {"success", "failure"}
        /\ (op.status = "success") <=> (Len(inp.types) = NonAccessorOperands(inp))
        /\ op.status = "success" =>
              /\ Len(op.resolved) = NonAccessorOperands(inp) + AccessorOperands(inp.items)
              /\ \A k \in 1..Len(op.resolved) :
                    IsAccessorValue(op.resolved[k][1]) => op.resolved[k][2] = "index"
              /\ LET own == SelectSeq(op.resolved, LAMBDA r : ~IsAccessorValue(r[1]))
                 IN  [k \in 1..Len(own) |-> own[k][2]] = inp.types
        /\ Len(inp.types) # NonAccessorOperands(inp) =>
              /\ op.diag = Mismatch(NonAccessorOperands(inp), Len(inp.types))
              /\ op.resolved = <<>>

\* a rotation gate with an angle operand and run-time accessors has parsed
C8_Witness ==
    /\ OpParsed /\ Placed(inp) /\ op.status = "success"
    /\ inp.lead = "val" /\ AccessorOperands(inp.items) > 0

\* the text `gate %a[%i]` with n declared types
GateWithDynamicAccessor(n) ==
    /\ inp.fam = "H"
    /\ inp.items = <<[v |-> 1, acc |-> <<ValTok(7)>>]>>
    /\ Len(inp.types) = n

\* C9 as stated (operand/type count example): `gate %a[%i] : f64, index`, with
\* 2 declared types, parses, and the same text with 1 declared type fails
\* with the mismatch diagnostic.
C9_TwoDeclaredTypes ==
    /\ (OpParsed /\ GateWithDynamicAccessor(2) /\ inp.types = <<"f64", "index">>)
            => op.status = "success"
    /\ (OpParsed /\ GateWithDynamicAccessor(1))
            => (op.status = "failure" /\ op.diag.msg = Mismatch(0, 0).msg)

\* C9 as amended: `gate %a[%i] : f64`, with 1 declared type (that of %a; the
\* accessor is index without being declared), parses, and the same text with
\* 2 declared types fails with the mismatch diagnostic (expected 1, actual 2).
C9_OneDeclaredType ==
    /\ (OpParsed /\ GateWithDynamicAccessor(1))
            => (op.status = "success" /\ op.resolved = <<<<1, inp.types[1]>>, <<7, "index">>>>)
    /\ (OpParsed /\ GateWithDynamicAccessor(2))
            => (op.status = "failure" /\ op.diag = Mismatch(1, 2) /\ op.resolved = <<>>)

\* `gate %a[%i] : f64, index` has been handed to the parser
C9_Witness ==
    /\ OpParsed /\ GateWithDynamicAccessor(2) /\ inp.types = <<"f64", "index">>
    /\ op.status = "failure"

\* C10 (leading scalar of a rotation gate): after every successful parse
\* exactly one of the angle operand and the static_phi attribute is populated,
\* and the printer writes the operand form exactly when the operand is.
C10_LeadingScalarExactlyOne ==
    (OpParsed /\ Family(inp.fam).rotation /\ op.status = "success") =>
        /\ op.phiOperand # (op.phi # None)
        /\ (OpPrinted /\ printed.status = "ok")
              => ((printed.toks[3][1] = "%") <=> op.phiOperand)

(***************************************************************************)
(* Properties of the accessor attributes and the segment sizes             *)
(***************************************************************************)
\* the attribute array of an accessor list as written: the literal, or the
\* dynamic marker for a value
StaticArray(acc) ==
    [k \in 1..Len(acc) |-> IF acc[k][1] = "%" THEN kDynamicSize ELSE acc[k][2]]

\* the positions of the operand list that are register-like, in order
RegLikePositions(slots) ==
    SelectSeq([k \in 1..Len(slots) |-> k], LAMBDA k : slots[k])

\* the accessor attribute of every register-like position of the family: the
\* array written at the operand, the empty array where the list has no operand
ExpectedAccessors(i) ==
    LET at == RegLikePositions(Slots(Family(i.fam)))
    IN  [j \in 1..Len(at) |->
            IF at[j] <= Len(i.items) THEN StaticArray(i.items[at[j]].acc) ELSE <<>>]

\* C11 (accessor attributes are total): after every successful parse the
\* operation carries one accessor attribute for each register-like position
\* of the family, named accessor_0 .. accessor_(numRegLike-1) in this order,
\* each added once, with the empty array at the positions the list did not
\* reach.
C11_AccessorAttrsTotal ==
    (OpParsed /\ op.status = "success") =>
        /\ op.accNames = [k \in 1..NumRegLike(Family(inp.fam)) |-> k - 1]
        /\ op.accs = ExpectedAccessors(inp)

(***************************************************************************)
(* Properties of the parametric circuit call                               *)
(***************************************************************************)
\* the call is written as the grammar has it: every operand behind a comma,
\* the closing parenthesis behind the last operand
CircGrammatical(i) == ~i.comma

\* the accessor values of the operands, in the order they are written
RECURSIVE AccessorValues(_)
AccessorValues(items) ==
    IF Len(items) = 0 THEN <<>>
    ELSE ValuesOf(items[1].acc) \o AccessorValues(Tail(items))

\* C12 (parametric circuit call): a call of the grammar parses successfully
\* only if its type list has as many types as the call has variadic operands,
\* the accessor operands not counted; the flat operand list then holds the
\* variadic operands in the order written, behind them the accessor operands in
\* the order written, each of type index; the segment sizes are the two counts;
\* and the accessor attribute holds one array for each variadic operand.
C12_CircuitCall ==
    (OpParsed /\ CircGrammatical(inp) /\ op.status = "success") =>
        /\ Len(inp.types) = Len(inp.items)
        /\ op.operands = [k \in 1..Len(inp.items) |-> inp.items[k].v]
                         \o AccessorValues(inp.items)
        /\ op.types = inp.types \o Repeat("index", AccessorOperands(inp.items))
        /\ op.resolved = [k \in 1..Len(op.operands) |-> <<op.operands[k], op.types[k]>>]
        /\ op.seg = <<Len(inp.items), AccessorOperands(inp.items)>>
        /\ op.accAttr
        /\ op.accs = [k \in 1..Len(inp.items) |-> StaticArray(inp.items[k].acc)]

\* a call of two operands, each with accessor values, has parsed
C12_Witness ==
    /\ OpParsed /\ CircGrammatical(inp) /\ op.status = "success"
    /\ Len(inp.items) = 2
    /\ inp.items[1].acc = <<ValTok(7)>>
    /\ inp.items[2].acc = <<IntTok(2), ValTok(8), IntTok(1)>>

(***************************************************************************)
(* Texts with one token too many, and the failure policy                   *)
(***************************************************************************)
\* the tokens put into a text: an attribute alias, the opening of an attribute
\* dictionary that does not parse, and a token no step accepts
FaultTokens == {HashTok(3), Tok("{"), Tok("?")}

InsertAt(toks, k, t) == SubSeq(toks, 1, k - 1) \o <<t>> \o SubSeq(toks, k, Len(toks))

\* the texts of the grammar, gates and circuit calls, that parse
SoundInputs ==
    {i \in Inputs : i.lead \in Leads(Family(i.fam)) /\ Grammatical(i)}
    \cup {i \in CircInputs : /\ CircGrammatical(i) /\ Len(i.items) \in 1..2
                             /\ Len(i.types) = Len(i.items)}

RenderAny(i) == IF i.fam = "circ" THEN RenderCirc(i) ELSE Render(i)

\* a text as it is, or with one token put in front of its k-th token
FaultyTexts(i) ==
    {[at |-> 0, toks |-> RenderAny(i)]}
    \cup {[at |-> k, toks |-> InsertAt(RenderAny(i), k, t)] :
            k \in 2..(Len(RenderAny(i)) + 1), t \in FaultTokens}

\* the framework dispatches on the operation's name
ParseGateStep == inp.fam # "circ" /\ ParseOpStep
ParseCallStep == inp.fam = "circ" /\ ParseCircStep

InitFaults ==
    /\ \E i \in SoundInputs : \E f \in FaultyTexts(i) :
            /\ inp = [fault |-> f.at] @@ i
            /\ text = f.toks
    /\ op = Idle /\ printed = Idle /\ op2 = Idle
    /\ TypeIdle /\ AccIdle
NextFaults == ParseGateStep \/ ParseCallStep
SpecFaults == InitFaults /\ [][NextFaults]_vars

\* C13 (fail-fast): once a lower-level parse step has failed, the operation
\* parse returns failure with the cursor where that step left it, no step
\* having run behind the failed one; a parse that succeeded had no failed step.
C13_FailFast ==
    (OpParsed /\ op.failedAt # 0) =>
        /\ op.status = "failure"
        /\ ~op.late
        /\ op.pos = op.failedAt

(***************************************************************************)
(* Operand lists with empty positions, and the segment sizes               *)
(***************************************************************************)
\* gate texts within the family's arity in which the operands at the
\* positions `gaps` are left out, their commas kept
SparseInputs ==
    {[fam |-> f.name, lead |-> l, items |-> it, types |-> ty, arrow |-> FALSE, gaps |-> g] :
        f \in Families, l \in {"none", "lit", "val"},
        it \in UNION {ItemLists(n) : n \in 0..MaxOperands},
        ty \in UNION {TypeLists(n) : n \in 0..MaxTypes},
        g \in SUBSET (1..MaxOperands)}

RECURSIVE RenderSparseItems(_, _, _)
RenderSparseItems(items, gaps, k) ==
    IF k > Len(items) THEN <<>>
    ELSE (IF k \in gaps THEN <<>> ELSE RenderItem(items[k]))
         \o (IF k < Len(items) THEN <<Tok(",")>> ELSE <<>>)
         \o RenderSparseItems(items, gaps, k + 1)

RenderSparse(i) ==
    <<Tok(i.fam)>> \o RenderLead(i.lead) \o RenderSparseItems(i.items, i.gaps, 1)
    \o (IF Len(i.types) = 0 THEN <<>>
        ELSE <<Tok(":")>> \o Joined([k \in 1..Len(i.types) |-> Tok(i.types[k])]))

InitSlots ==
    /\ inp \in {i \in SparseInputs : /\ i.lead \in Leads(Family(i.fam))
                                     /\ Placed(i)
                                     /\ i.gaps \subseteq 1..Len(i.items)}
    /\ text = RenderSparse(inp)
    /\ op = Idle /\ printed = Idle /\ op2 = Idle
    /\ TypeIdle /\ AccIdle
SpecSlots == InitSlots /\ [][NextOps]_vars

RECURSIVE SumSeq(_)
SumSeq(q) == IF Len(q) = 0 THEN 0 ELSE Head(q) + SumSeq(Tail(q))

\* the segments of the operand at position k of the list and of those behind
\* it: 1 for an operand that is written, then, at a register-like position,
\* the number of its accessor values; 0 where nothing is written
RECURSIVE SegmentsFrom(_, _, _)
SegmentsFrom(i, slots, k) ==
    IF k > Len(slots) THEN <<>>
    ELSE LET written == k <= Len(i.items) /\ k \notin i.gaps
         IN  <<IF written THEN 1 ELSE 0>>
             \o (IF slots[k]
                 THEN <<IF written THEN Len(ValuesOf(i.items[k].acc)) ELSE 0>>
                 ELSE <<>>)
             \o SegmentsFrom(i, slots, k + 1)

\* the segment sizes of a text, slot by slot
ExpectedSegments(i) ==
    (IF Family(i.fam).rotation THEN <<LeadOperands(i)>> ELSE <<>>)
    \o SegmentsFrom(i, Slots(Family(i.fam)), 1)

\* C15 (segment sizes): after every successful parse the segment sizes are, at
\* the slots of each operand of the list, 1 for the operand (and for an angle
\* operand) and the number of its accessor values, 0 at every slot not
\* reached, also where the angle is a literal or a position of the list is
\* empty; their sum is the number of operands of the flat operand array.
C15_SegmentSizes ==
    (OpParsed /\ op.status = "success") =>
        /\ op.seg = ExpectedSegments(inp)
        /\ SumSeq(op.seg) = Len(op.operands)

\* C16 (bounded indexing): for an operand list of any length every read of
\* isRegLike and every write to segmentSizes is within the bounds of the
\* family's arrays, and a list of more operands than the family has is
\* rejected with a failure.
C16_BoundedIndexing ==
    OpParsed =>
        /\ ~op.oob
        /\ Len(inp.items) > Len(Slots(Family(inp.fam))) => op.status = "failure"

====
